---- MODULE Spec2Model ----
(***************************************************************************)
(* Model of matchstick's MatchstickInstanceContext (src/src/context/mod.rs):*)
(* the mocked entity store with its derived-field bookkeeping, the mocked   *)
(* contract-call registry, and ipfs.map with its second instance.           *)
(*                                                                          *)
(* The helpers of the modules derived_fields, derived_schema and conversion *)
(* (insert_derived_field_in_store, update_derived_relations_in_store,       *)
(* cascade_remove, derive_schema, collect_types, get_kind) are used by      *)
(* mod.rs and defined in other files of the crate; they are modelled from   *)
(* the specification text (spec.md 4.2, 4.3, 4.4).                          *)
(***************************************************************************)
EXTENDS Integers, Sequences, FiniteSets, TLC

\* ----------------------------------------------------------------------
\* Bounds of the model
\* ----------------------------------------------------------------------
\* the writes (store.set, store.remove, clearStore) a run makes
MaxWrites == 4

\* the mocks (createMockedFunction) a run registers
MaxMocks == 2

\* the entity ids the handlers under test use
AccountIds == {"a1", "a2"}
TxIds == {"t1", "t2"}
TokenIds == {}

\* ----------------------------------------------------------------------
\* graph::data::store::Value (the variants the store logic distinguishes)
\* ----------------------------------------------------------------------
Null == [kind |-> "Null", s |-> "", l |-> <<>>]
Str(x) == [kind |-> "String", s |-> x, l |-> <<>>]
List(xs) == [kind |-> "List", s |-> "", l |-> xs]

Range(q) == {q[i] : i \in 1..Len(q)}

\* HashMap::insert on a field map
Put(f, k, v) == [x \in (DOMAIN f) \cup {k} |-> IF x = k THEN v ELSE f[x]]

\* HashMap::remove on a map
Drop(f, k) == [x \in (DOMAIN f) \ {k} |-> f[x]]

EmptyMap == [x \in {} |-> Null]

\* ----------------------------------------------------------------------
\* The schema (schema.graphql), an input of the harness:
\*   type GraphAccount @entity { id: ID!
\*     nameSignalTransactions: [NameSignalTransaction!]! @derivedFrom(field: "signer") }
\*   type NameSignalTransaction @entity { id: ID!  signer: GraphAccount!  token: Token }
\*   type Token @entity { id: ID!
\*     transactions: [NameSignalTransaction!]! @derivedFrom(field: "token") }
\* ----------------------------------------------------------------------
SchemaTypes == {"GraphAccount", "NameSignalTransaction", "Token"}

\* a type name no definition of the schema carries
UnknownType == "Unknown"

IdsOf(t) ==
  CASE t = "GraphAccount" -> AccountIds
    [] t = "NameSignalTransaction" -> TxIds
    [] t = "Token" -> TokenIds
    [] OTHER -> {"x1"}

\* fields of NonNullType that are not @derivedFrom
required_fields(t) ==
  CASE t = "GraphAccount" -> {"id"}
    [] t = "NameSignalTransaction" -> {"id", "signer"}
    [] t = "Token" -> {"id"}
    [] OTHER -> {}

\* context.derived: source type -> <<derived field, linking field, target type>>
derived ==
  [t \in {"NameSignalTransaction"} |->
     << <<"nameSignalTransactions", "signer", "GraphAccount">>,
        <<"transactions", "token", "Token">> >>]

VARIABLES
  store,          \* type -> id -> field -> Value (keys present only)
  iter,           \* source type -> ids of its entity map in iteration order
  inserted,       \* source type -> ids of its entity map in the order they were inserted
  store_updated,  \* TRUE: derived relations are in order
  aborted,        \* logging::critical! ended the process
  last,           \* the last host call and what it returned
  lastWrite,      \* the last write that went through, and what its entity referred to
  writes,         \* the number of writes that went through
  fn_ret_map,     \* call fingerprint -> the tokens the mocked call returns
  lastReg,        \* the last mockFunction that went through; again: the one before it
                  \* had its parameters and other return values
  ipfs,           \* hash -> path of the mocked ipfs file
  pc,             \* where mock_ipfs_map stands: "idle", "loop" or "callback"
  mapping,        \* the ipfs.map under way: its values, the calls made, how many of them
                  \* changed the store or the mocks, how it ended
  other,          \* the context that is not running: the instance of ipfs.map between
                  \* two callbacks, the parent during a callback
  data_source_return_value,
                  \* the mocked address, network and context of dataSource, each an
                  \* Option: <<>> is None, <<x>> is Some(x)
  lastSet,        \* the dataSourceMock.setReturnValues the mocks of the running context
                  \* come from, and what it was passed
  meta_tests      \* the registered tests, describes and hooks, in the order registered:
                  \* <<name, should_fail, func_idx, role>>

vars == <<store, iter, inserted, store_updated, aborted, last, lastWrite, writes,
          fn_ret_map, lastReg, ipfs, pc, mapping, other, data_source_return_value, lastSet,
          meta_tests>>

storeVars == <<store, iter, inserted, store_updated, lastWrite, writes>>

mockVars == <<fn_ret_map, lastReg, data_source_return_value, lastSet, meta_tests>>

ipfsVars == <<ipfs, pc, mapping, other>>

\* ----------------------------------------------------------------------
\* Inputs of store.set: the field maps a handler passes for an entity
\* ----------------------------------------------------------------------
Opt(name, vals) == {EmptyMap} \cup {[x \in {name} |-> v] : v \in vals}

Merge(f, g) == [x \in (DOMAIN f) \cup (DOMAIN g) |-> IF x \in DOMAIN g THEN g[x] ELSE f[x]]

SignerValues ==
  {Null} \cup {Str(a) : a \in AccountIds}
         \cup {List(<<"a1", "a2">>)}

DataFor(t, id) ==
  CASE t = "GraphAccount" -> Opt("id", {Null, Str(id)})
    [] t = "NameSignalTransaction" ->
         {Merge(Merge(a, b), c) : a \in Opt("id", {Str(id)}),
                                  b \in Opt("signer", SignerValues),
                                  c \in Opt("token", {Str(k) : k \in TokenIds})}
    [] t = "Token" -> Opt("id", {Str(id)})
    [] OTHER -> Opt("id", {Str(id)})

\* ----------------------------------------------------------------------
\* Store helpers
\* ----------------------------------------------------------------------
\* self.store.contains_key(type) && self.store.get(type).unwrap().contains_key(id)
Has(st, t, id) == t \in DOMAIN st /\ id \in DOMAIN st[t]

InsertAt(q, p, x) == SubSeq(q, 1, p) \o <<x>> \o SubSeq(q, p + 1, Len(q))

Without(q, x) == SelectSeq(q, LAMBDA y : y # x)

\* a linking field value that names the entity id: the id itself, or a list holding it
PointsAt(v, id) ==
  \/ v.kind = "String" /\ v.s = id
  \/ v.kind = "List" /\ id \in Range(v.l)

\* the <<type, id>> pairs the linking fields of record rec of type t name
RefsOf(t, rec) ==
  IF t \notin DOMAIN derived THEN {}
  ELSE UNION {{<<derived[t][i][3], b>> :
                 b \in {x \in IdsOf(derived[t][i][3]) :
                          /\ derived[t][i][2] \in DOMAIN rec
                          /\ PointsAt(rec[derived[t][i][2]], x)}} :
              i \in 1..Len(derived[t])}

\* derived_fields::insert_derived_field_in_store: push id into the derived list
\* linking_field[1] of the entity derived_field_value names in original_entity,
\* creating the list field when the entity has none
insert_derived_field_in_store(st, derived_field_value, original_entity, linking_field, id) ==
  IF derived_field_value.kind # "String" THEN st
  ELSE IF derived_field_value.s \notin DOMAIN st[original_entity] THEN st
  ELSE LET rec == st[original_entity][derived_field_value.s]
           old == IF linking_field[1] \in DOMAIN rec /\ rec[linking_field[1]].kind = "List"
                  THEN rec[linking_field[1]].l ELSE <<>>
           new == IF id \in Range(old) THEN old ELSE Append(old, id)
       IN [st EXCEPT ![original_entity][derived_field_value.s] =
              Put(rec, linking_field[1], List(new))]

RECURSIVE insert_each(_, _, _, _, _)
\* the for loop of mod.rs:443 over the elements of a list-valued linking field
insert_each(st, elems, original_entity, linking_field, id) ==
  IF elems = <<>> THEN st
  ELSE insert_each(
         insert_derived_field_in_store(st, Str(Head(elems)), original_entity, linking_field, id),
         Tail(elems), original_entity, linking_field, id)

\* a push that takes a list for one value
push_one_value(st, linking_field, id, data) ==
  IF linking_field[2] \in DOMAIN data /\ linking_field[3] \in DOMAIN st
  THEN insert_derived_field_in_store(st, data[linking_field[2]], linking_field[3],
                                     linking_field, id)
  ELSE st

\* body of the loop of mod.rs:429 for one linking field
push_one(st, linking_field, id, data) ==
  IF linking_field[2] \in DOMAIN data /\ linking_field[3] \in DOMAIN st
  THEN LET derived_field_value == data[linking_field[2]]
       IN IF derived_field_value.kind = "List"
          THEN insert_each(st, derived_field_value.l, linking_field[3], linking_field, id)
          ELSE insert_derived_field_in_store(st, derived_field_value, linking_field[3],
                                             linking_field, id)
  ELSE st

RECURSIVE push_all(_, _, _, _)
push_all(st, linking_fields, id, data) ==
  IF linking_fields = <<>> THEN st
  ELSE push_all(push_one(st, Head(linking_fields), id, data), Tail(linking_fields), id, data)

\* mod.rs:421-463: the eager push of a write into the entities it refers to
push_links(st, entity_type, id, data) ==
  IF entity_type \in DOMAIN derived
  THEN push_all(st, derived[entity_type], id, data)
  ELSE st

\* mod.rs:496-510: ids of the stored linked_entity records whose linking field is the
\* string id, in the iteration order of the entity map
children(st, it, linked_entity, linking_field, id) ==
  SelectSeq(it[linked_entity],
            LAMBDA child_id :
               /\ linking_field[2] \in DOMAIN st[linked_entity][child_id]
               /\ st[linked_entity][child_id][linking_field[2]].kind = "String"
               /\ st[linked_entity][child_id][linking_field[2]].s = id)

RECURSIVE pull_fields(_, _, _, _, _, _)
\* mod.rs:494-514: the inner loop over the linking fields of one child type
pull_fields(st, it, linked_entity, linking_fields, id, data) ==
  IF linking_fields = <<>> THEN data
  ELSE pull_fields(st, it, linked_entity, Tail(linking_fields), id,
         IF linked_entity \in DOMAIN st
         THEN Put(data, Head(linking_fields)[1],
                  List(children(st, it, linked_entity, Head(linking_fields), id)))
         ELSE data)

\* mod.rs:472-486: the source types with some linking field that targets entity_type
child_entities(entity_type) ==
  {linked_entity \in DOMAIN derived :
     \E i \in 1..Len(derived[linked_entity]) : derived[linked_entity][i][3] = entity_type}

\* the keys of context.derived in the order the map yields them
DerivedKeys == <<"NameSignalTransaction">>

RECURSIVE pull_types(_, _, _, _, _, _)
pull_types(st, it, keys, entity_type, id, data) ==
  IF keys = <<>> THEN data
  ELSE pull_types(st, it, Tail(keys), entity_type, id,
         IF Head(keys) \in child_entities(entity_type)
         THEN pull_fields(st, it, Head(keys), derived[Head(keys)], id, data)
         ELSE data)

\* mod.rs:471-516: the eager pull of the written entity's derived fields
pull_children(st, it, entity_type, id, data) ==
  pull_types(st, it, DerivedKeys, entity_type, id, data)

\* a validation that looks for the key alone
missing_required_absent_only(entity_type, data) ==
  \E f \in required_fields(entity_type) : f \notin DOMAIN data

\* mod.rs:403-419: some required field is absent from data or Null
missing_required(entity_type, data) ==
  \E f \in required_fields(entity_type) : f \notin DOMAIN data \/ data[f] = Null

\* mod.rs:421-519: the store after a write that passed validation
set_store(st, it, entity_type, id, data) ==
  LET pushed == push_links(st, entity_type, id, data)
      entity_type_store == IF entity_type \in DOMAIN pushed THEN pushed[entity_type]
                           ELSE EmptyMap
      pulled == pull_children(pushed, it, entity_type, id, data)
  IN Put(pushed, entity_type, Put(entity_type_store, id, pulled))

\* a write that leaves the flag set
flag_after_write_kept == TRUE

\* mod.rs:520 and mod.rs:544: the flag a write leaves
flag_after_write == FALSE

\* the entity maps whose iteration order the model follows: a new key lands in a
\* bucket its hash picks, so anywhere among the keys already there
iter_after_insert(it, entity_type, id) ==
  IF entity_type \notin DOMAIN it \/ id \in Range(it[entity_type]) THEN {it}
  ELSE {[it EXCEPT ![entity_type] = InsertAt(it[entity_type], p, id)] :
          p \in 0..Len(it[entity_type])}

\* the order of insertion: a new key comes last, a key already there stays
inserted_after_insert(ins, entity_type, id) ==
  IF entity_type \notin DOMAIN ins \/ id \in Range(ins[entity_type]) THEN ins
  ELSE [ins EXCEPT ![entity_type] = Append(@, id)]

\* a removed key leaves the order of the keys that stay
iter_after_remove(it, st) ==
  [t \in DOMAIN it |->
     IF t \in DOMAIN st THEN SelectSeq(it[t], LAMBDA c : c \in DOMAIN st[t]) ELSE <<>>]

\* ----------------------------------------------------------------------
\* derived_fields::update_derived_relations_in_store (the lazy pass) and
\* derived_fields::cascade_remove
\* ----------------------------------------------------------------------
\* a scan that finds no referrer
referrers_none(st, it, source, linking_field, id) == <<>>

\* ids of the stored source entities whose linking field points at id
referrers(st, it, source, linking_field, id) ==
  SelectSeq(it[source],
            LAMBDA c :
               /\ linking_field[2] \in DOMAIN st[source][c]
               /\ PointsAt(st[source][c][linking_field[2]], id))

\* a pass that appends to the list it finds where the pass overwrites it
rescan_fields_appending(st, it, source, linking_fields, entity_type, id, rec) ==
  IF linking_fields = <<>> THEN rec
  ELSE LET f == Head(linking_fields)
       IN IF f[3] = entity_type
          THEN Put(rec, f[1],
                   List((IF f[1] \in DOMAIN rec THEN rec[f[1]].l ELSE <<>>)
                        \o referrers(st, it, source, f, id)))
          ELSE rec

RECURSIVE rescan_fields(_, _, _, _, _, _, _)
rescan_fields(st, it, source, linking_fields, entity_type, id, rec) ==
  IF linking_fields = <<>> THEN rec
  ELSE rescan_fields(st, it, source, Tail(linking_fields), entity_type, id,
         IF Head(linking_fields)[3] = entity_type
         THEN Put(rec, Head(linking_fields)[1],
                  List(referrers(st, it, source, Head(linking_fields), id)))
         ELSE rec)

RECURSIVE rescan_types(_, _, _, _, _, _)
rescan_types(st, it, keys, entity_type, id, rec) ==
  IF keys = <<>> THEN rec
  ELSE rescan_types(st, it, Tail(keys), entity_type, id,
         IF Head(keys) \in DOMAIN st
         THEN rescan_fields(st, it, Head(keys), derived[Head(keys)], entity_type, id, rec)
         ELSE rec)

\* the record of entity (entity_type, id) with each of its derived fields recomputed
\* by a scan of the stored entities of the descriptor's source type
rescan(st, it, entity_type, id) ==
  rescan_types(st, it, DerivedKeys, entity_type, id, st[entity_type][id])

\* the full pass over every stored entity
full_pass(st, it) ==
  [t \in DOMAIN st |-> [id \in DOMAIN st[t] |-> rescan(st, it, t, id)]]

\* no-op when the flag says the relations are in order
update_derived_relations_in_store(st, it, updated) ==
  IF updated THEN st ELSE full_pass(st, it)

\* a pass that leaves the flag cleared
flag_after_pass_dirty == FALSE

\* the flag the pass leaves: the relations are in order
flag_after_pass == TRUE

\* one target type scrubbed of id in the derived field of linking_field
scrub(entities, linking_field, id) ==
  [b \in DOMAIN entities |->
     IF linking_field[1] \in DOMAIN entities[b] /\ entities[b][linking_field[1]].kind = "List"
     THEN Put(entities[b], linking_field[1],
              List(Without(entities[b][linking_field[1]].l, id)))
     ELSE entities[b]]

RECURSIVE cascade_fields(_, _, _)
cascade_fields(st, linking_fields, id) ==
  IF linking_fields = <<>> THEN st
  ELSE cascade_fields(
         IF Head(linking_fields)[3] \in DOMAIN st
         THEN [st EXCEPT ![Head(linking_fields)[3]] = scrub(@, Head(linking_fields), id)]
         ELSE st,
         Tail(linking_fields), id)

\* removes id from every derived list the entity's writes pushed it into
cascade_remove(st, entity_type, id) ==
  cascade_fields(st, derived[entity_type], id)

\* a removal whose changed copy of the type's map is not put back
remove_store_not_put_back(st, entity_type, id) ==
  IF entity_type \in DOMAIN derived THEN cascade_remove(st, entity_type, id) ELSE st

\* a removal that puts back a fresh map (not the changed copy)
remove_store_fresh_map(st, entity_type, id) ==
  Put(IF entity_type \in DOMAIN derived THEN cascade_remove(st, entity_type, id) ELSE st,
      entity_type, EmptyMap)

\* mod.rs:537-543: the store after the removal of an entity that is there
remove_store(st, entity_type, id) ==
  LET cascaded == IF entity_type \in DOMAIN derived
                  THEN cascade_remove(st, entity_type, id) ELSE st
  IN Put(cascaded, entity_type, Drop(cascaded[entity_type], id))

\* ----------------------------------------------------------------------
\* State after construction (MatchstickInstanceContext::new)
\* ----------------------------------------------------------------------
NoCall == [op |-> "new", type |-> "", id |-> "", ok |-> TRUE, val |-> "none"]

NoWrite == [op |-> "none", type |-> "", id |-> "", refs |-> {}]

NoReg == [made |-> FALSE, params |-> <<>>, ret |-> <<>>, reverts |-> FALSE, again |-> FALSE]

\* no ipfs.map under way
NoMap == [values |-> <<>>, callback |-> "", calls |-> <<>>, changed |-> 0, ended |-> "none",
          runs |-> 0]

\* Option<T>
None == <<>>
Some(x) == <<x>>

\* no dataSourceMock.setReturnValues was made
NoSet == [made |-> FALSE, address |-> "", network |-> "", context |-> EmptyMap]

\* no second context
NoContext == [there |-> FALSE, store |-> EmptyMap, iter |-> EmptyMap, inserted |-> EmptyMap,
              fn_ret_map |-> EmptyMap, store_updated |-> TRUE,
              data_source_return_value |-> <<None, None, None>>, lastSet |-> NoSet,
   meta_tests |-> <<>>]

Init ==
  /\ store = EmptyMap
  /\ iter = [t \in DOMAIN derived |-> <<>>]
  /\ inserted = [t \in DOMAIN derived |-> <<>>]
  /\ store_updated = TRUE
  /\ aborted = FALSE
  /\ last = NoCall
  /\ lastWrite = NoWrite
  /\ writes = 0
  /\ fn_ret_map = EmptyMap
  /\ lastReg = NoReg
  /\ ipfs = EmptyMap
  /\ pc = "idle"
  /\ mapping = NoMap
  /\ other = NoContext
  /\ data_source_return_value = <<None, None, None>>
  /\ lastSet = NoSet
  /\ meta_tests = <<>>

Call(op, t, id, ok, val) == [op |-> op, type |-> t, id |-> id, ok |-> ok, val |-> val]

\* ----------------------------------------------------------------------
\* store.set
\* ----------------------------------------------------------------------
\* a write that does not look the type up in the schema
mock_store_set_type_unchecked(entity_type, id, data) ==
  /\ ~aborted
  /\ writes < MaxWrites
  /\ IF missing_required(entity_type, data)
     THEN /\ last' = Call("set", entity_type, id, FALSE, "error")
          /\ UNCHANGED <<store, iter, inserted, store_updated, aborted, lastWrite, writes, mockVars, ipfsVars>>
     ELSE /\ store' = set_store(store, iter, entity_type, id, data)
          /\ iter' \in iter_after_insert(iter, entity_type, id)
          /\ inserted' = inserted_after_insert(inserted, entity_type, id)
          /\ store_updated' = flag_after_write
          /\ last' = Call("set", entity_type, id, TRUE, "none")
          /\ lastWrite' = [op |-> "set", type |-> entity_type, id |-> id, refs |-> {}]
          /\ writes' = writes + 1
          /\ UNCHANGED <<aborted, mockVars, ipfsVars>>

mock_store_set(entity_type, id, data) ==
  /\ ~aborted
  /\ writes < MaxWrites
  /\ IF entity_type \notin SchemaTypes
     THEN /\ aborted' = TRUE
          /\ last' = Call("set", entity_type, id, FALSE, "critical")
          /\ UNCHANGED <<store, iter, inserted, store_updated, lastWrite, writes, mockVars, ipfsVars>>
     ELSE IF missing_required(entity_type, data)
     THEN /\ last' = Call("set", entity_type, id, FALSE, "error")
          /\ UNCHANGED <<store, iter, inserted, store_updated, aborted, lastWrite, writes, mockVars, ipfsVars>>
     ELSE /\ store' = set_store(store, iter, entity_type, id, data)
          /\ iter' \in iter_after_insert(iter, entity_type, id)
          /\ inserted' = inserted_after_insert(inserted, entity_type, id)
          /\ store_updated' = flag_after_write
          /\ last' = Call("set", entity_type, id, TRUE, "none")
          /\ lastWrite' = [op |-> "set", type |-> entity_type, id |-> id,
                           refs |-> IF Has(store, entity_type, id)
                                    THEN RefsOf(entity_type, store[entity_type][id])
                                    ELSE {}]
          /\ writes' = writes + 1
          /\ UNCHANGED <<aborted, mockVars, ipfsVars>>

\* ----------------------------------------------------------------------
\* store.remove
\* ----------------------------------------------------------------------
mock_store_remove(entity_type, id) ==
  /\ ~aborted
  /\ writes < MaxWrites
  /\ IF Has(store, entity_type, id)
     THEN /\ store' = remove_store(store, entity_type, id)
          /\ iter' = iter_after_remove(iter, store')
          /\ inserted' = iter_after_remove(inserted, store')
          /\ store_updated' = flag_after_write
          /\ last' = Call("remove", entity_type, id, TRUE, "none")
          /\ lastWrite' = [op |-> "remove", type |-> entity_type, id |-> id,
                           refs |-> RefsOf(entity_type, store[entity_type][id])]
          /\ writes' = writes + 1
          /\ UNCHANGED <<aborted, mockVars, ipfsVars>>
     ELSE /\ last' = Call("remove", entity_type, id, FALSE, "error")
          /\ UNCHANGED <<store, iter, inserted, store_updated, aborted, lastWrite, writes, mockVars, ipfsVars>>

\* ----------------------------------------------------------------------
\* clearStore
\* ----------------------------------------------------------------------
\* a clear that sets the flag and leaves the entities
clear_store_flag_only ==
  /\ ~aborted
  /\ writes < MaxWrites
  /\ store_updated' = TRUE
  /\ last' = Call("clear", "", "", TRUE, "none")
  /\ lastWrite' = [op |-> "clear", type |-> "", id |-> "", refs |-> {}]
  /\ writes' = writes + 1
  /\ UNCHANGED <<store, iter, inserted, aborted, mockVars, ipfsVars>>

\* a clear that empties the mocked calls with the entities
clear_store_and_mocks ==
  /\ ~aborted
  /\ writes < MaxWrites
  /\ store' = EmptyMap
  /\ iter' = [t \in DOMAIN derived |-> <<>>]
  /\ inserted' = [t \in DOMAIN derived |-> <<>>]
  /\ store_updated' = TRUE
  /\ fn_ret_map' = EmptyMap
  /\ last' = Call("clear", "", "", TRUE, "none")
  /\ lastWrite' = [op |-> "clear", type |-> "", id |-> "", refs |-> {}]
  /\ writes' = writes + 1
  /\ UNCHANGED <<aborted, lastReg, data_source_return_value, lastSet, meta_tests, ipfsVars>>

clear_store ==
  /\ ~aborted
  /\ writes < MaxWrites
  /\ store' = EmptyMap
  /\ iter' = [t \in DOMAIN derived |-> <<>>]
  /\ inserted' = [t \in DOMAIN derived |-> <<>>]
  /\ store_updated' = TRUE
  /\ last' = Call("clear", "", "", TRUE, "none")
  /\ lastWrite' = [op |-> "clear", type |-> "", id |-> "", refs |-> {}]
  /\ writes' = writes + 1
  /\ UNCHANGED <<aborted, mockVars, ipfsVars>>

\* ----------------------------------------------------------------------
\* Queries and assertions
\* ----------------------------------------------------------------------
RECURSIVE join(_)
\* values.iter().map(to_string).collect().join(", ")
join(xs) ==
  IF xs = <<>> THEN ""
  ELSE IF Len(xs) = 1 THEN Head(xs)
  ELSE Head(xs) \o ", " \o join(Tail(xs))

\* Display of graph::data::store::Value, the rendering assert.fieldEquals compares
to_string(v) ==
  CASE v.kind = "String" -> v.s
    [] v.kind = "List" -> "[" \o join(v.l) \o "]"
    [] OTHER -> "null"

FieldNames == {"nameSignalTransactions"}

Renderings == {"[t1]"}

\* a comparison that is content with the field being there
field_equals_any_rendering(st, entity_type, id, field_name, expected_val) ==
  IF entity_type \notin DOMAIN st THEN FALSE
  ELSE IF id \notin DOMAIN st[entity_type] THEN FALSE
  ELSE field_name \in DOMAIN st[entity_type][id]

\* mod.rs:238-281 on the reconciled store
field_equals(st, entity_type, id, field_name, expected_val) ==
  IF entity_type \notin DOMAIN st THEN FALSE
  ELSE IF id \notin DOMAIN st[entity_type] THEN FALSE
  ELSE IF field_name \notin DOMAIN st[entity_type][id] THEN FALSE
  ELSE to_string(st[entity_type][id][field_name]) = expected_val

\* a test that looks for the type's map alone
not_in_store_type_only(st, entity_type, id) == entity_type \notin DOMAIN st

\* mod.rs:329-340 on the reconciled store
not_in_store(st, entity_type, id) == ~Has(st, entity_type, id)

\* a lookup that tests the type's map alone
get_type_only(st, entity_type, id) ==
  [found |-> entity_type \in DOMAIN st,
   entity |-> IF Has(st, entity_type, id) THEN st[entity_type][id] ELSE EmptyMap]

\* mod.rs:354-365 on the reconciled store: the entity, or the null pointer
get(st, entity_type, id) ==
  [found |-> Has(st, entity_type, id),
   entity |-> IF Has(st, entity_type, id) THEN st[entity_type][id] ELSE EmptyMap]

\* a count of the store's own keys
count_outer(st, entity_type) ==
  IF entity_type \in DOMAIN st THEN Cardinality(DOMAIN st) ELSE 0

\* mod.rs:826-835
count(st, entity_type) ==
  IF entity_type \in DOMAIN st THEN Cardinality(DOMAIN st[entity_type]) ELSE 0

\* the call of update_derived_relations_in_store that opens a handler
reconciled ==
  /\ store' = update_derived_relations_in_store(store, iter, store_updated)
  /\ store_updated' = flag_after_pass

assert_field_equals(entity_type, id, field_name, expected_val) ==
  /\ ~aborted
  /\ reconciled
  /\ last' = Call("fieldEquals", entity_type, id, TRUE,
                  field_equals(store', entity_type, id, field_name, expected_val))
  /\ UNCHANGED <<iter, inserted, aborted, lastWrite, writes, mockVars, ipfsVars>>

assert_not_in_store(entity_type, id) ==
  /\ ~aborted
  /\ reconciled
  /\ last' = Call("notInStore", entity_type, id, TRUE, not_in_store(store', entity_type, id))
  /\ UNCHANGED <<iter, inserted, aborted, lastWrite, writes, mockVars, ipfsVars>>

mock_store_get(entity_type, id) ==
  /\ ~aborted
  /\ reconciled
  /\ last' = Call("get", entity_type, id, TRUE, get(store', entity_type, id))
  /\ UNCHANGED <<iter, inserted, aborted, lastWrite, writes, mockVars, ipfsVars>>

\* conversion::get_token_value: the value of a token without its kind
get_token_value(token) == token.v

\* the values a test compares
EqualsTokens == {[kind |-> "Uint", v |-> "7"], [kind |-> "Int", v |-> "7"],
                 [kind |-> "Uint", v |-> "2a"]}

\* mod.rs:303-315
equals(expected, actual) == get_token_value(expected) = get_token_value(actual)

assert_equals(expected, actual) ==
  /\ ~aborted
  /\ reconciled
  /\ last' = Call("equals", "", "", TRUE, equals(expected, actual))
  /\ UNCHANGED <<iter, inserted, aborted, lastWrite, writes, mockVars, ipfsVars>>

count_entities(entity_type) ==
  /\ ~aborted
  /\ last' = Call("count", entity_type, "", TRUE, count(store, entity_type))
  /\ UNCHANGED <<store, iter, inserted, store_updated, aborted, lastWrite, writes, mockVars, ipfsVars>>

\* ----------------------------------------------------------------------
\* The host calls a test may make against the store, in any order
\* ----------------------------------------------------------------------
CallTypes == SchemaTypes \cup {UnknownType}

Next ==
  \/ \E t \in CallTypes : \E id \in IdsOf(t) : \E data \in DataFor(t, id) :
       mock_store_set(t, id, data)
  \/ \E t \in SchemaTypes : \E id \in IdsOf(t) : mock_store_remove(t, id)
  \/ clear_store
  \/ \E t \in SchemaTypes : \E id \in IdsOf(t) : mock_store_get(t, id)
  \/ \E t \in SchemaTypes : \E id \in IdsOf(t) : assert_not_in_store(t, id)
  \/ \E t \in SchemaTypes : \E id \in IdsOf(t) :
       \E f \in FieldNames : \E e \in Renderings : assert_field_equals(t, id, f, e)
  \/ \E t \in SchemaTypes : count_entities(t)
  \/ \E expected \in EqualsTokens : \E actual \in EqualsTokens : assert_equals(expected, actual)

Spec == Init /\ [][Next]_vars

\* ----------------------------------------------------------------------
\* The mocked contract calls (createMockedFunction, ethereum.call)
\* ----------------------------------------------------------------------
\* an address (H160), as its first two bytes, its middle and its last two bytes in hex
Address(h, m, t) == [head |-> h, mid |-> m, tail |-> t]

Addr1 == Address("1111", "aa", "2222")
Addr2 == Address("1111", "bb", "2222")
Addr3 == Address("3333", "aa", "2222")

\* Display of H160, which Address::to_string uses: the first two and the last two
\* bytes around an ellipsis (written "..." here)
address_to_string(a) == "0x" \o a.head \o "..." \o a.tail

\* LowerHex of H160: every byte
address_hex(a) == a.head \o a.mid \o a.tail

\* ethabi::Token, with the text Display writes for it
AddressToken(a) == [kind |-> "Address", v |-> address_hex(a)]
StringToken(x) == [kind |-> "String", v |-> x]
UintToken(hex) == [kind |-> "Uint", v |-> hex]
BytesToken(hex) == [kind |-> "Bytes", v |-> hex]

\* Token::to_string
token_to_string(t) == t.v

\* mod.rs:47-48: vec![Token::Bytes(vec![255; 7])]
REVERTS_IDENTIFIER == <<BytesToken("ffffffffffffff")>>

\* a function signature: its text, with the name before the first '(' and the
\* argument types between the name and "):"
Signature(name, types, text) == [name |-> name, types |-> types, text |-> text]

SigBalanceOf == Signature("balanceOf", <<"address">>, "balanceOf(address):(uint256)")
SigPair == Signature("pair", <<"string", "string">>, "pair(string,string):(uint256)")

RECURSIVE args_to_string(_)
\* mod.rs:136-138
args_to_string(fn_args) ==
  IF fn_args = <<>> THEN ""
  ELSE token_to_string(Head(fn_args)) \o args_to_string(Tail(fn_args))

\* mod.rs:129-140
fn_id(contract_address, fn_name, fn_signature, fn_args) ==
  contract_address \o fn_name \o fn_signature \o args_to_string(fn_args)

\* mod.rs:647-650: the argument types read from the signature text
arg_types(fn_name, sig) == IF fn_name = sig.name THEN sig.types ELSE <<sig.text>>

\* conversion::get_kind and Token::type_check: the token is of the declared type
type_check(fn_arg, arg_type) ==
  CASE arg_type = "address" -> fn_arg.kind = "Address"
    [] arg_type = "string" -> fn_arg.kind = "String"
    [] arg_type = "uint256" -> fn_arg.kind = "Uint"
    [] arg_type = "bytes" -> fn_arg.kind = "Bytes"
    [] OTHER -> FALSE

\* checks that leave out the comparison of each argument with its declared type
mock_function_error_types_unchecked(fn_name, sig, fn_args) ==
  IF fn_name # sig.name THEN "name"
  ELSE IF Len(arg_types(fn_name, sig)) # Len(fn_args) THEN "count"
  ELSE "none"

\* mod.rs:652-687: what the checks of mockFunction answer
mock_function_error(fn_name, sig, fn_args) ==
  IF fn_name # sig.name THEN "name"
  ELSE IF Len(arg_types(fn_name, sig)) # Len(fn_args) THEN "count"
  ELSE IF \E i \in 1..Len(fn_args) : ~type_check(fn_args[i], arg_types(fn_name, sig)[i])
       THEN "type"
  ELSE "none"

\* mod.rs:696-700: what the registry keeps for the call
stored_value(return_value, reverts) == IF reverts THEN REVERTS_IDENTIFIER ELSE return_value

\* mod.rs:697-699: HashMap::insert into fn_ret_map
fn_ret_map_insert(map, id, value) == Put(map, id, value)

Params(contract_address, fn_name, sig, fn_args) ==
  <<contract_address, fn_name, sig, fn_args>>

mock_function(contract_address, fn_name, sig, fn_args, return_value, reverts) ==
  /\ ~aborted
  /\ writes < MaxMocks
  /\ IF mock_function_error(fn_name, sig, fn_args) # "none"
     THEN /\ last' = Call("register", "", "", FALSE,
                          mock_function_error(fn_name, sig, fn_args))
          /\ UNCHANGED <<fn_ret_map, lastReg, writes>>
     ELSE LET id == fn_id(address_to_string(contract_address), fn_name, sig.text, fn_args)
          IN /\ fn_ret_map' = fn_ret_map_insert(fn_ret_map, id,
                                                stored_value(return_value, reverts))
             /\ last' = Call("register", "", "", TRUE, "none")
             /\ lastReg' = [made |-> TRUE,
                            params |-> Params(contract_address, fn_name, sig, fn_args),
                            ret |-> return_value,
                            reverts |-> reverts,
                            again |-> /\ lastReg.made
                                      /\ lastReg.params = Params(contract_address, fn_name,
                                                                  sig, fn_args)
                                      /\ lastReg.ret # return_value]
             /\ writes' = writes + 1
  /\ UNCHANGED <<store, iter, inserted, store_updated, lastWrite, aborted, ipfsVars,
                 data_source_return_value, lastSet, meta_tests>>

\* mod.rs:583-607: the values of the mocked call, the null pointer of a call that
\* reverts, or the error of a call no mock was made for
call_result(map, id) ==
  IF id \in DOMAIN map
  THEN IF map[id] = REVERTS_IDENTIFIER
       THEN [kind |-> "reverted", values |-> <<>>]
       ELSE [kind |-> "values", values |-> map[id]]
  ELSE [kind |-> "error", values |-> <<>>]

ethereum_call(contract_address, fn_name, sig, fn_args) ==
  /\ ~aborted
  /\ LET id == fn_id(address_to_string(contract_address), fn_name, sig.text, fn_args)
         res == call_result(fn_ret_map, id)
     IN last' = Call("call", "", "", res.kind # "error",
                     [params |-> Params(contract_address, fn_name, sig, fn_args),
                      result |-> res])
  /\ UNCHANGED <<storeVars, aborted, mockVars, ipfsVars>>

\* the calls the handlers under test mock and make: <<name, signature, arguments>>
MockAddresses == {Addr1, Addr2, Addr3}
MockCalls ==
  {<<"balanceOf", SigBalanceOf, <<AddressToken(Addr1)>> >>,
   <<"pair", SigPair, <<StringToken("ab"), StringToken("c")>> >>,
   <<"pair", SigPair, <<StringToken("a"), StringToken("bc")>> >>,
   <<"pair", SigBalanceOf, <<AddressToken(Addr1)>> >>,
   <<"pair", SigPair, <<StringToken("ab")>> >>,
   <<"balanceOf", SigBalanceOf, <<StringToken("ab")>> >>}
MockReturns == {<<UintToken("2a")>>, <<UintToken("7")>>, REVERTS_IDENTIFIER}

NextMock ==
  \/ \E a \in MockAddresses : \E c \in MockCalls :
       \E ret \in MockReturns : \E reverts \in BOOLEAN :
         mock_function(a, c[1], c[2], c[3], ret, reverts)
  \/ \E a \in MockAddresses : \E c \in MockCalls : ethereum_call(a, c[1], c[2], c[3])

SpecMock == Init /\ [][NextMock]_vars

\* ----------------------------------------------------------------------
\* The mocked ipfs files (mockIpfsFile, ipfs.map)
\* ----------------------------------------------------------------------
\* the ipfs.map calls a run makes
MaxMaps == 2

\* the files of the test directory: a JSON array of two values, an empty one
IpfsPaths == {"two.json", "empty.json", "missing.json"}

\* std::fs::read_to_string succeeds
readable(file_path) == file_path \in {"two.json", "empty.json"}

\* serde_json::from_str of the file: the values of the array
json_values(file_path) == IF file_path = "two.json" THEN <<"v1", "v2">> ELSE <<>>

IpfsHashes == {"Qm1"}

\* the functions the module under test exports, and one it does not
Exports == {"processItem"}
Callbacks == {"processItem", "noSuchFunction"}

\* the host calls are made by the code that runs: the test, or a callback
Running == pc \in {"idle", "callback"}

\* mod.rs:839-850
mock_ipfs_file(hash, file_path) ==
  /\ ~aborted
  /\ pc = "idle"
  /\ ipfs' = Put(ipfs, hash, file_path)
  /\ last' = Call("ipfsFile", "", hash, TRUE, "none")
  /\ UNCHANGED <<storeVars, aborted, mockVars, pc, mapping, other>>

\* MatchstickInstanceContext::new for the instance of mod.rs:899-906
new_instance_context ==
  [there |-> TRUE, store |-> EmptyMap, iter |-> EmptyMap, inserted |-> EmptyMap,
   fn_ret_map |-> EmptyMap, store_updated |-> TRUE,
   data_source_return_value |-> <<None, None, None>>, lastSet |-> NoSet,
   meta_tests |-> <<>>]

\* mod.rs:872-913: ipfs.map up to its loop
mock_ipfs_map(link, callback) ==
  /\ ~aborted
  /\ pc = "idle"
  /\ mapping.runs < MaxMaps
  /\ IF link \notin DOMAIN ipfs \/ ~readable(ipfs[link])
     THEN /\ aborted' = TRUE
          /\ last' = Call("ipfsMap", "", link, FALSE, "critical")
          /\ UNCHANGED <<storeVars, mockVars, ipfsVars>>
     ELSE /\ pc' = "loop"
          /\ mapping' = [values |-> json_values(ipfs[link]), callback |-> callback,
                         calls |-> <<>>, changed |-> 0, ended |-> "none",
                         runs |-> mapping.runs + 1]
          /\ other' = new_instance_context
          /\ last' = Call("ipfsMap", "", link, TRUE, "loop")
          /\ UNCHANGED <<storeVars, mockVars, aborted, ipfs>>

\* mod.rs:922-926: what the instance holds when the callback starts
copy_in(parent, instance) ==
  [there |-> TRUE, store |-> parent.store, iter |-> parent.iter, inserted |-> parent.inserted,
   fn_ret_map |-> parent.fn_ret_map, store_updated |-> instance.store_updated,
   data_source_return_value |-> parent.data_source_return_value, lastSet |-> parent.lastSet,
   meta_tests |-> instance.meta_tests]

\* a parent that takes the entities back and not the mocks
copy_back_store_only(instance, parent) ==
  [there |-> TRUE, store |-> instance.store, iter |-> instance.iter,
   inserted |-> instance.inserted, fn_ret_map |-> parent.fn_ret_map,
   store_updated |-> parent.store_updated,
   data_source_return_value |-> instance.data_source_return_value,
   lastSet |-> instance.lastSet, meta_tests |-> parent.meta_tests]

\* mod.rs:936-940: what the parent holds when the callback has returned
copy_back(instance, parent) ==
  [there |-> TRUE, store |-> instance.store, iter |-> instance.iter,
   inserted |-> instance.inserted, fn_ret_map |-> instance.fn_ret_map,
   store_updated |-> parent.store_updated,
   data_source_return_value |-> instance.data_source_return_value,
   lastSet |-> instance.lastSet, meta_tests |-> parent.meta_tests]

\* the context that runs
this == [there |-> TRUE, store |-> store, iter |-> iter, inserted |-> inserted,
         fn_ret_map |-> fn_ret_map, store_updated |-> store_updated,
         data_source_return_value |-> data_source_return_value, lastSet |-> lastSet,
         meta_tests |-> meta_tests]

\* the context c becomes the one that runs
switch_to(c) ==
  /\ store' = c.store
  /\ iter' = c.iter
  /\ inserted' = c.inserted
  /\ fn_ret_map' = c.fn_ret_map
  /\ store_updated' = c.store_updated
  /\ data_source_return_value' = c.data_source_return_value
  /\ lastSet' = c.lastSet
  /\ meta_tests' = c.meta_tests

\* mod.rs:915-935: the next value of the array, the state handed to the instance,
\* the callback looked up and called
map_call ==
  /\ ~aborted
  /\ pc = "loop"
  /\ Len(mapping.calls) < Len(mapping.values)
  /\ IF mapping.callback \in Exports
     THEN /\ switch_to(copy_in(this, other))
          /\ other' = this
          /\ pc' = "callback"
          /\ mapping' = [mapping EXCEPT
                           !.calls = Append(@, mapping.values[Len(mapping.calls) + 1])]
          /\ last' = Call("callback", "", "", TRUE, mapping.values[Len(mapping.calls) + 1])
          /\ UNCHANGED <<aborted, lastWrite, writes, lastReg, ipfs>>
     ELSE /\ pc' = "idle"
          /\ mapping' = [mapping EXCEPT !.ended = "error"]
          /\ other' = NoContext
          /\ last' = Call("ipfsMap", "", "", FALSE, "function not found")
          /\ UNCHANGED <<storeVars, mockVars, aborted, ipfs>>

\* mod.rs:936-940: the callback has returned, the state is copied back
callback_return ==
  /\ ~aborted
  /\ pc = "callback"
  /\ switch_to(copy_back(this, other))
  /\ other' = [new_instance_context EXCEPT !.store_updated = store_updated,
                                            !.meta_tests = meta_tests]
  /\ pc' = "loop"
  /\ mapping' = [mapping EXCEPT
                   !.changed = IF store # other.store \/ fn_ret_map # other.fn_ret_map
                               THEN @ + 1 ELSE @]
  /\ last' = Call("callbackReturn", "", "", TRUE, "none")
  /\ UNCHANGED <<aborted, lastWrite, writes, lastReg, ipfs>>

\* mod.rs:934-935: the callback failed, ipfs.map returns the error
callback_fail ==
  /\ ~aborted
  /\ pc = "callback"
  /\ switch_to(other)
  /\ other' = NoContext
  /\ pc' = "idle"
  /\ mapping' = [mapping EXCEPT !.ended = "error"]
  /\ last' = Call("ipfsMap", "", "", FALSE, "Failed to handle callback")
  /\ lastWrite' = NoWrite
  /\ lastReg' = NoReg
  /\ UNCHANGED <<aborted, writes, ipfs>>

\* mod.rs:915, 943: no value is left, ipfs.map returns
map_return ==
  /\ ~aborted
  /\ pc = "loop"
  /\ Len(mapping.calls) = Len(mapping.values)
  /\ pc' = "idle"
  /\ mapping' = [mapping EXCEPT !.ended = "ok"]
  /\ other' = NoContext
  /\ last' = Call("ipfsMap", "", "", TRUE, Len(mapping.calls))
  /\ UNCHANGED <<storeVars, mockVars, aborted, ipfs>>

\* the entities and the mock the test and its callback work with
MapData(t) ==
  IF t = "GraphAccount" THEN [id |-> Str("a1")]
  ELSE [id |-> Str("t1"), signer |-> Str("a1")]
MapKeys == {<<"GraphAccount", "a1">>, <<"NameSignalTransaction", "t1">>}
MapCall == <<"balanceOf", SigBalanceOf, <<AddressToken(Addr1)>> >>

NextIpfs ==
  \/ Running /\ \E k \in MapKeys : mock_store_set(k[1], k[2], MapData(k[1]))
  \/ Running /\ mock_store_remove("NameSignalTransaction", "t1")
  \/ Running /\ clear_store
  \/ Running /\ mock_store_get("GraphAccount", "a1")
  \/ Running /\ assert_not_in_store("NameSignalTransaction", "t1")
  \/ Running /\ \E f \in FieldNames : \E e \in Renderings :
                   assert_field_equals("GraphAccount", "a1", f, e)
  \/ Running /\ count_entities("NameSignalTransaction")
  \/ Running /\ \E actual \in EqualsTokens : assert_equals([kind |-> "Uint", v |-> "7"], actual)
  \/ Running /\ mock_function(Addr1, MapCall[1], MapCall[2], MapCall[3],
                               <<UintToken("2a")>>, FALSE)
  \/ Running /\ ethereum_call(Addr1, MapCall[1], MapCall[2], MapCall[3])
  \/ \E h \in IpfsHashes : \E p \in IpfsPaths : mock_ipfs_file(h, p)
  \/ \E h \in IpfsHashes : \E c \in Callbacks : mock_ipfs_map(h, c)
  \/ map_call
  \/ callback_return
  \/ callback_fail
  \/ map_return

SpecIpfs == Init /\ [][NextIpfs]_vars

\* the writes and the read of a test whose ipfs.map callback makes the same calls:
\* an account, a transaction signed by it or by another account, the read of the
\* account
HandoffSigners == {"a1", "a2"}

NextHandoff ==
  \/ Running /\ mock_store_set("GraphAccount", "a1", [id |-> Str("a1")])
  \/ Running /\ \E signer \in HandoffSigners :
                   mock_store_set("NameSignalTransaction", "t1",
                                  [id |-> Str("t1"), signer |-> Str(signer)])
  \/ Running /\ mock_store_remove("NameSignalTransaction", "t1")
  \/ Running /\ mock_store_get("GraphAccount", "a1")
  \/ \E h \in IpfsHashes : \E p \in IpfsPaths : mock_ipfs_file(h, p)
  \/ \E h \in IpfsHashes : \E c \in Callbacks : mock_ipfs_map(h, c)
  \/ map_call
  \/ callback_return
  \/ callback_fail
  \/ map_return

SpecHandoff == Init /\ [][NextHandoff]_vars

\* ----------------------------------------------------------------------
\* The mocked data source (dataSource.address, dataSource.network,
\* dataSource.context, dataSourceMock.setReturnValues)
\* ----------------------------------------------------------------------
\* the address of twenty zero bytes
ZeroAddress == Address("0000", "00000000000000000000000000000000", "0000")

\* mod.rs:734
default_address_val == "0x0000000000000000000000000000000000000000"

\* mod.rs:758
default_network_val == "mainnet"

\* Address::from_str: the address the hexadecimal text spells
address_from_str(text) ==
  CHOOSE a \in {ZeroAddress, Addr1, Addr2, Addr3} : "0x" \o address_hex(a) = text

\* the keys of the contexts the tests pass, in the order of their texts
ContextKeys == <<"id", "owner">>

RECURSIVE entries(_, _)
entries(entity, keys) ==
  IF keys = <<>> THEN <<>>
  ELSE (IF Head(keys) \in DOMAIN entity
        THEN << <<Head(keys), entity[Head(keys)]>> >> ELSE <<>>)
       \o entries(entity, Tail(keys))

\* Entity::sorted: the fields of the entity as pairs, in the order of their keys
sorted(entity) == entries(entity, ContextKeys)

\* mod.rs:735-748: the address dataSource.address() returns
data_source_address(value) ==
  IF value[1] # None THEN address_from_str(value[1][1])
  ELSE address_from_str(default_address_val)

\* a getter that returns the default whatever was set
data_source_network_default(value) == default_network_val

\* mod.rs:759-772: the text dataSource.network() returns
data_source_network(value) ==
  IF value[2] # None THEN value[2][1] ELSE default_network_val

\* mod.rs:782-796: the entity dataSource.context() returns
data_source_context(value) ==
  IF value[3] # None THEN sorted(value[3][1]) ELSE sorted(EmptyMap)

mock_data_source_address ==
  /\ ~aborted
  /\ last' = Call("dataSourceAddress", "", "", TRUE,
                  data_source_address(data_source_return_value))
  /\ UNCHANGED <<storeVars, aborted, mockVars, ipfsVars>>

mock_data_source_network ==
  /\ ~aborted
  /\ last' = Call("dataSourceNetwork", "", "", TRUE,
                  data_source_network(data_source_return_value))
  /\ UNCHANGED <<storeVars, aborted, mockVars, ipfsVars>>

mock_data_source_context ==
  /\ ~aborted
  /\ last' = Call("dataSourceContext", "", "", TRUE,
                  data_source_context(data_source_return_value))
  /\ UNCHANGED <<storeVars, aborted, mockVars, ipfsVars>>

\* mod.rs:802-816
set_data_source_return_values(address, network, context) ==
  /\ ~aborted
  /\ data_source_return_value' = <<Some(address), Some(network), Some(context)>>
  /\ lastSet' = [made |-> TRUE, address |-> address, network |-> network,
                 context |-> context]
  /\ last' = Call("setReturnValues", "", "", TRUE, "none")
  /\ UNCHANGED <<storeVars, aborted, fn_ret_map, lastReg, ipfsVars, meta_tests>>

\* the address, network and context the tests set
DataSourceValues ==
  {<<"0x1111aa2222", "rinkeby", [owner |-> Str("a1"), id |-> Str("ctx")]>>,
   <<"0x1111bb2222", "mainnet", EmptyMap>>}

\* the host calls of a test that mocks the data source, next to writes of an
\* account, a mocked call and an ipfs.map whose callback makes the same calls
NextDataSource ==
  \/ Running /\ mock_store_set("GraphAccount", "a1", MapData("GraphAccount"))
  \/ Running /\ mock_store_remove("GraphAccount", "a1")
  \/ Running /\ clear_store
  \/ Running /\ mock_function(Addr1, MapCall[1], MapCall[2], MapCall[3],
                               <<UintToken("2a")>>, FALSE)
  \/ Running /\ ethereum_call(Addr1, MapCall[1], MapCall[2], MapCall[3])
  \/ Running /\ \E v \in DataSourceValues : set_data_source_return_values(v[1], v[2], v[3])
  \/ Running /\ mock_data_source_address
  \/ Running /\ mock_data_source_network
  \/ Running /\ mock_data_source_context
  \/ \E h \in IpfsHashes : \E p \in IpfsPaths : mock_ipfs_file(h, p)
  \/ \E h \in IpfsHashes : \E c \in Callbacks : mock_ipfs_map(h, c)
  \/ map_call
  \/ callback_return
  \/ callback_fail
  \/ map_return

SpecDataSource == Init /\ [][NextDataSource]_vars

\* ----------------------------------------------------------------------
\* The registered tests (_registerTest, _registerDescribe, _registerHook)
\* ----------------------------------------------------------------------
\* the entries a run registers
MaxTests == 2

\* mod.rs:179-191
register_test(name, should_fail, func_idx) ==
  /\ ~aborted
  /\ Len(meta_tests) < MaxTests
  /\ meta_tests' = Append(meta_tests, <<name, should_fail, func_idx, "test">>)
  /\ last' = Call("registerTest", "", "", TRUE, "none")
  /\ UNCHANGED <<storeVars, aborted, fn_ret_map, lastReg, data_source_return_value, lastSet,
                 ipfsVars>>

\* mod.rs:194-205
register_describe(name, func_idx) ==
  /\ ~aborted
  /\ Len(meta_tests) < MaxTests
  /\ meta_tests' = Append(meta_tests, <<name, FALSE, func_idx, "describe">>)
  /\ last' = Call("registerDescribe", "", "", TRUE, "none")
  /\ UNCHANGED <<storeVars, aborted, fn_ret_map, lastReg, data_source_return_value, lastSet,
                 ipfsVars>>

\* mod.rs:208-218
register_hook(func_idx, role) ==
  /\ ~aborted
  /\ Len(meta_tests) < MaxTests
  /\ meta_tests' = Append(meta_tests, <<"", FALSE, func_idx, role>>)
  /\ last' = Call("registerHook", "", "", TRUE, "none")
  /\ UNCHANGED <<storeVars, aborted, fn_ret_map, lastReg, data_source_return_value, lastSet,
                 ipfsVars>>

\* the names, table indices and roles the test file registers
TestNames == {"handles transfer"}
FuncIndices == {1}
HookRoles == {"beforeEach"}

\* the host calls of a test file that registers its tests and hooks, mocks a call,
\* the data source and an ipfs file, writes an account and clears the store
NextClear ==
  \/ \E name \in TestNames : \E should_fail \in BOOLEAN : \E func_idx \in FuncIndices :
       register_test(name, should_fail, func_idx)
  \/ \E name \in TestNames : \E func_idx \in FuncIndices : register_describe(name, func_idx)
  \/ \E func_idx \in FuncIndices : \E role \in HookRoles : register_hook(func_idx, role)
  \/ mock_store_set("GraphAccount", "a1", MapData("GraphAccount"))
  \/ clear_store
  \/ mock_function(Addr1, MapCall[1], MapCall[2], MapCall[3], <<UintToken("2a")>>, FALSE)
  \/ \E a \in {Addr1, Addr3} : ethereum_call(a, MapCall[1], MapCall[2], MapCall[3])
  \/ \E v \in DataSourceValues : set_data_source_return_values(v[1], v[2], v[3])
  \/ mock_data_source_network
  \/ \E h \in IpfsHashes : mock_ipfs_file(h, "two.json")

SpecClear == Init /\ [][NextClear]_vars

\* ----------------------------------------------------------------------
\* Properties
\* ----------------------------------------------------------------------
\* the handlers that open with update_derived_relations_in_store
ReconcilingOps == {"get", "fieldEquals", "notInStore", "equals"}

Occurrences(q, x) == Cardinality({i \in 1..Len(q) : q[i] = x})

\* the ids held by the derived field f of record rec, none when it has no such list
ListOf(rec, f) == IF f \in DOMAIN rec /\ rec[f].kind = "List" THEN rec[f].l ELSE <<>>

\* the stored entities of type source whose linking field points at id
PointingAt(source, linking, id) ==
  IF source \notin DOMAIN store THEN {}
  ELSE {c \in DOMAIN store[source] :
          linking \in DOMAIN store[source][c] /\ PointsAt(store[source][c][linking], id)}

\* the descriptors <<source type, derived field, linking field, target type>> of the schema
Descriptors ==
  UNION {{<<s, derived[s][i][1], derived[s][i][2], derived[s][i][3]>> :
            i \in 1..Len(derived[s])} : s \in DOMAIN derived}

\* C1: a store.set whose data lacks a required field of the type, or holds Null for
\* it, fails, and the store, the iteration order and the dirty flag stay as they were.
C1_FailedSetChangesNothing ==
  [][last'.op = "set" =>
       \A data \in DataFor(last'.type, last'.id) :
          (/\ \E f \in required_fields(last'.type) :
                 f \notin DOMAIN data \/ data[f].kind = "Null"
           /\ mock_store_set(last'.type, last'.id, data))
          => (/\ last'.ok = FALSE
              /\ store' = store
              /\ iter' = iter
              /\ store_updated' = store_updated)]_vars

\* a failed store.set on a key that holds a record
C1_Witness ==
  /\ last.op = "set"
  /\ last.val = "error"
  /\ Has(store, last.type, last.id)
  /\ ~store_updated

\* C2: once the relations are reconciled, a stored source entity A whose linking
\* field is the id of a stored target entity B is in B's derived list exactly once.
C2_PushPullAgreement ==
  store_updated =>
    \A d \in Descriptors :
      \A b \in IdsOf(d[4]) :
        Has(store, d[4], b) =>
          \A a \in IdsOf(d[1]) :
            (/\ Has(store, d[1], a)
             /\ d[3] \in DOMAIN store[d[1]][a]
             /\ store[d[1]][a][d[3]] = Str(b))
            => Occurrences(ListOf(store[d[4]][b], d[2]), a) = 1

\* reconciled, with the target written after the source that names it
C2_Witness ==
  /\ store_updated
  /\ last.op \in ReconcilingOps
  /\ lastWrite.op = "set"
  /\ lastWrite.type = "GraphAccount"
  /\ Has(store, "NameSignalTransaction", "t1")
  /\ store["NameSignalTransaction"]["t1"]["signer"] = Str(lastWrite.id)
  /\ Has(store, "GraphAccount", lastWrite.id)
  /\ ListOf(store["GraphAccount"][lastWrite.id], "nameSignalTransactions") = <<"t1">>

C4_CascadeDelete ==
  (lastWrite.op = "remove" /\ store_updated) =>
    \A r \in lastWrite.refs :
      Has(store, r[1], r[2]) =>
        \A d \in Descriptors :
          (d[1] = lastWrite.type /\ d[4] = r[1])
          => lastWrite.id \notin Range(ListOf(store[r[1]][r[2]], d[2]))

\* a removed entity pointed at a stored one, and a query has reconciled since
C4_Witness ==
  /\ lastWrite.op = "remove"
  /\ store_updated
  /\ last.op \in ReconcilingOps
  /\ \E r \in lastWrite.refs :
        /\ Has(store, r[1], r[2])
        /\ "nameSignalTransactions" \in DOMAIN store[r[1]][r[2]]

\* C5: the reconciliation pass is idempotent: from any reachable state, the store
\* and the flag a second pass leaves are those the first pass left, and the
\* store the first pass left is one the full pass maps to itself.
C5_ReconcileIdempotent ==
  LET once == update_derived_relations_in_store(store, iter, store_updated)
  IN /\ update_derived_relations_in_store(once, iter, TRUE) = once
     /\ full_pass(once, iter) = once
     /\ last.op \in ReconcilingOps =>
          (store_updated = flag_after_pass /\ full_pass(store, iter) = store)

\* a reconciling query has run on a store whose writes gave an account two
\* transactions
C5_Witness ==
  /\ last.op \in ReconcilingOps
  /\ store_updated
  /\ lastWrite.op = "set"
  /\ lastWrite.refs # {}
  /\ \E a \in AccountIds :
        /\ Has(store, "GraphAccount", a)
        /\ Len(ListOf(store["GraphAccount"][a], "nameSignalTransactions")) = 2

\* C6 as stated: after store.set of transaction t1 with signer a1 on a store with no
\* GraphAccount entity, store.get("GraphAccount", "a1") returns a record whose
\* nameSignalTransactions is [t1].
C6_TargetCreatedByReference ==
  (/\ last.op = "get"
   /\ last.type = "GraphAccount"
   /\ last.id = "a1"
   /\ lastWrite.op = "set"
   /\ lastWrite.type = "NameSignalTransaction"
   /\ lastWrite.id = "t1"
   /\ store["NameSignalTransaction"]["t1"]["signer"] = Str("a1")
   /\ count(store, "GraphAccount") = 0)
  => (/\ last.val.found
      /\ ListOf(last.val.entity, "nameSignalTransactions") = <<"t1">>)

\* C6 as amended: with transaction t1, whose signer is the id of the account, the one
\* stored transaction that names the account, store.get of the account returns not
\* found while the account is not stored, and a record whose nameSignalTransactions
\* is [t1] once it is.
C6_TargetListOnceWritten ==
  (/\ last.op = "get"
   /\ last.type = "GraphAccount"
   /\ PointingAt("NameSignalTransaction", "signer", last.id) = {"t1"}
   /\ store["NameSignalTransaction"]["t1"]["signer"] = Str(last.id))
  => IF Has(store, "GraphAccount", last.id)
     THEN /\ last.val.found
          /\ ListOf(last.val.entity, "nameSignalTransactions") = <<"t1">>
     ELSE ~last.val.found

\* the account was written after the transaction that names it, and then read
C6_Witness ==
  /\ last.op = "get"
  /\ last.type = "GraphAccount"
  /\ last.val.found
  /\ lastWrite.op = "set"
  /\ lastWrite.type = "GraphAccount"
  /\ lastWrite.id = last.id
  /\ PointingAt("NameSignalTransaction", "signer", last.id) = {"t1"}
  /\ store["NameSignalTransaction"]["t1"]["signer"] = Str(last.id)
  /\ ListOf(last.val.entity, "nameSignalTransactions") = <<"t1">>

\* C7 as stated: get, fieldEquals, notInStore and countEntities, called on a dirty
\* store, return with the store reconciled and the flag set.
C7_ReadsReconcile ==
  [][(last'.op \in ReconcilingOps \cup {"count"} /\ ~store_updated)
     => (store_updated' /\ store' = full_pass(store, iter))]_vars

\* C8 as stated: the flag is false after a store.set or store.remove that went
\* through, and goes from false to true in a reconciling call only.
C8_FlagOnlySetByPass ==
  [][/\ (last'.op \in {"set", "remove"} /\ last'.ok) => ~store_updated'
     /\ (~store_updated /\ store_updated') => last'.op \in ReconcilingOps]_vars

\* C8 as amended: the flag is false after a store.set or store.remove that went
\* through, and goes from false to true in a reconciling call, which leaves the
\* store the full pass computes, or in clearStore, which leaves the store empty.
C8_FlagSetByPassOrClear ==
  [][/\ (last'.op \in {"set", "remove"} /\ last'.ok) => ~store_updated'
     /\ (~store_updated /\ store_updated') =>
          \/ last'.op \in ReconcilingOps /\ store' = full_pass(store, iter)
          \/ last'.op = "clear" /\ store' = EmptyMap]_vars

\* clearStore on a dirty store
C8_Witness ==
  /\ last.op = "clear"
  /\ store_updated
  /\ store = EmptyMap
  /\ writes > 1

\* the fields of rec that are no derived field of type t
NonDerived(t, rec) ==
  [f \in (DOMAIN rec) \ {d[2] : d \in {e \in Descriptors : e[4] = t}} |-> rec[f]]

\* C9: store.remove of a key that holds no record fails and leaves the store and the
\* flag as they were; of a key that holds one, it takes the record away, keeps every
\* other record of the type with its non-derived fields, and leaves the store dirty.
C9_Remove ==
  [][last'.op = "remove" =>
       IF ~Has(store, last'.type, last'.id)
       THEN /\ ~last'.ok
            /\ store' = store
            /\ store_updated' = store_updated
       ELSE /\ last'.ok
            /\ not_in_store(store', last'.type, last'.id)
            /\ DOMAIN store'[last'.type] = (DOMAIN store[last'.type]) \ {last'.id}
            /\ \A o \in DOMAIN store'[last'.type] :
                  NonDerived(last'.type, store'[last'.type][o])
                    = NonDerived(last'.type, store[last'.type][o])
            /\ ~store_updated']_vars

\* a removal that went through and left another record of the type
C9_Witness ==
  /\ last.op = "remove"
  /\ last.ok
  /\ ~store_updated
  /\ last.type \in DOMAIN store
  /\ DOMAIN store[last.type] # {}

\* C10 as stated: a mockFunction with the address, name, signature and arguments of
\* the one before it and other return values leaves the registry with the entries it
\* had, and ethereum.call with those parameters returns the return values of the
\* second one.
C10_RegisterOverwrites ==
  [][/\ (last'.op = "register" /\ last'.ok /\ lastReg'.again)
        => /\ DOMAIN fn_ret_map' = DOMAIN fn_ret_map
           /\ Cardinality(DOMAIN fn_ret_map') = Cardinality(DOMAIN fn_ret_map)
     /\ (/\ last'.op = "call"
         /\ lastReg.again
         /\ ~lastReg.reverts
         /\ last'.val.params = lastReg.params)
        => last'.val.result = [kind |-> "values", values |-> lastReg.ret]]_vars

\* C11 as stated: with one mockFunction made, with reverts false, ethereum.call with
\* its name, signature and arguments returns its return values at its address, and
\* fails for want of a mock at any other address.
C11_InvokeMatchesRegistration ==
  [][(/\ last'.op = "call"
      /\ lastReg.made
      /\ writes = 1
      /\ ~lastReg.reverts
      /\ \A i \in 2..4 : last'.val.params[i] = lastReg.params[i])
     => IF last'.val.params[1] = lastReg.params[1]
        THEN last'.val.result = [kind |-> "values", values |-> lastReg.ret]
        ELSE last'.val.result.kind = "error"]_vars

\* C12 as stated: ethereum.call with the parameters of the last mockFunction returns
\* the revert signal exactly when that mockFunction had reverts true, and the return
\* values it was given, whatever they are, when it had reverts false.
C12_RevertIffRegisteredReverting ==
  [][(/\ last'.op = "call"
      /\ lastReg.made
      /\ last'.val.params = lastReg.params)
     => /\ (last'.val.result.kind = "reverted") <=> lastReg.reverts
        /\ ~lastReg.reverts
             => last'.val.result = [kind |-> "values", values |-> lastReg.ret]]_vars

\* the token kind a declared argument type stands for
DeclaredKind(arg_type) ==
  CASE arg_type = "address" -> "Address"
    [] arg_type = "string" -> "String"
    [] arg_type = "uint256" -> "Uint"
    [] arg_type = "bytes" -> "Bytes"
    [] OTHER -> "None"

\* the name is the one in the signature, there are as many arguments as declared
\* types, and each argument is of the kind declared at its position
PassesChecks(fn_name, sig, fn_args) ==
  /\ fn_name = sig.name
  /\ Len(sig.types) = Len(fn_args)
  /\ \A i \in 1..Len(fn_args) : fn_args[i].kind = DeclaredKind(sig.types[i])

\* C13: a mockFunction whose name is not the one in the signature, whose arguments
\* are not as many as the declared types, or with an argument of another kind than
\* declared fails and leaves the registry as it was; the registry changes only in a
\* mockFunction that passes the three checks.
C13_RegisterValidates ==
  [][/\ last'.op = "register" =>
          \A a \in MockAddresses : \A c \in MockCalls :
            \A ret \in MockReturns : \A reverts \in BOOLEAN :
              (/\ ~PassesChecks(c[1], c[2], c[3])
               /\ mock_function(a, c[1], c[2], c[3], ret, reverts))
              => (~last'.ok /\ fn_ret_map' = fn_ret_map)
     /\ (fn_ret_map' # fn_ret_map \/ (last'.op = "register" /\ last'.ok))
          => /\ last'.op = "register"
             /\ last'.ok
             /\ PassesChecks(lastReg'.params[2], lastReg'.params[3], lastReg'.params[4])]_vars

\* a mockFunction refused for the kind of an argument, with a mock in the registry
C13_Witness ==
  /\ last.op = "register"
  /\ ~last.ok
  /\ last.val = "type"
  /\ fn_ret_map # EmptyMap

\* C14: assert.fieldEquals returns, as a result and never as an error, true when the
\* record is in the store, has the field and the field renders as the expected
\* text, and false otherwise; on an empty store it returns false.
C14_FieldEquals ==
  [][last'.op = "fieldEquals" =>
       \A f \in FieldNames : \A e \in Renderings :
         assert_field_equals(last'.type, last'.id, f, e) =>
           /\ last'.ok
           /\ last'.val = (/\ Has(store', last'.type, last'.id)
                           /\ f \in DOMAIN store'[last'.type][last'.id]
                           /\ to_string(store'[last'.type][last'.id][f]) = e)
           /\ store = EmptyMap => last'.val = FALSE]_vars

\* assert.fieldEquals found the field with the expected rendering
C14_Witness ==
  /\ last.op = "fieldEquals"
  /\ last.ok
  /\ last.val = TRUE
  /\ Has(store, last.type, last.id)

\* C15: assert.notInStore returns true exactly when the store holds no record at
\* the key, store.get returns the null result exactly then, and neither fails; in
\* every state the two agree on every key.
C15_NotInStoreIffGetNull ==
  /\ last.op = "notInStore" =>
       (last.ok /\ last.val = ~Has(store, last.type, last.id))
  /\ last.op = "get" =>
       (last.ok /\ last.val.found = Has(store, last.type, last.id))
  /\ \A t \in SchemaTypes : \A id \in IdsOf(t) :
       not_in_store(store, t, id) = ~get(store, t, id).found

\* assert.notInStore on a key whose record was removed, the type's map still there
C15_Witness ==
  /\ last.op = "notInStore"
  /\ last.val = TRUE
  /\ lastWrite.op = "remove"
  /\ lastWrite.type = last.type
  /\ lastWrite.id = last.id
  /\ last.type \in DOMAIN store

\* C16: countEntities returns the number of ids at which the store holds a record of
\* the type (those for which assert.notInStore is false), 0 when it holds none,
\* the type never written or all its records removed.
C16_CountIsNumberOfRecords ==
  last.op = "count" =>
    /\ last.ok
    /\ last.val = Cardinality({id \in IdsOf(last.type) : ~not_in_store(store, last.type, id)})
    /\ (\A id \in IdsOf(last.type) : not_in_store(store, last.type, id)) => last.val = 0

\* countEntities of a type whose records were all removed, next to another type
C16_Witness ==
  /\ last.op = "count"
  /\ last.val = 0
  /\ lastWrite.op = "remove"
  /\ lastWrite.type = last.type
  /\ last.type \in DOMAIN store
  /\ Cardinality(DOMAIN store) = 2

\* the place of id x in the sequence q, 0 when it is not there
Position(q, x) == IF x \in Range(q) THEN CHOOSE i \in 1..Len(q) : q[i] = x ELSE 0

\* the ids of q follow one another as they do in the order of insertion
InInsertionOrder(q, source) ==
  \A i \in 1..Len(q) : \A j \in 1..Len(q) :
    (i < j /\ q[i] \in Range(inserted[source]) /\ q[j] \in Range(inserted[source]))
    => Position(inserted[source], q[i]) < Position(inserted[source], q[j])

\* C19 as stated: a computed derived list, the one store.set wrote into the record
\* it stored or any list once the relations are reconciled, holds its ids in the
\* order in which the entities were inserted, the one order every run yields.
C19_ListsInInsertionOrder ==
  \A d \in Descriptors :
    \A b \in IdsOf(d[4]) :
      (/\ Has(store, d[4], b)
       /\ \/ store_updated
          \/ last.op = "set" /\ last.ok /\ last.type = d[4] /\ last.id = b)
      => InInsertionOrder(ListOf(store[d[4]][b], d[2]), d[1])

\* C18: right after clearStore, whatever came before, countEntities is 0 for every
\* type, assert.notInStore is true for every key, and the flag says clean.
C18_ClearEmptiesAndCleans ==
  last.op = "clear" =>
    /\ last.ok
    /\ \A t \in SchemaTypes :
         /\ count(store, t) = 0
         /\ \A id \in IdsOf(t) : not_in_store(store, t, id)
    /\ store_updated

\* clearStore as the last of the writes the run may make
C18_Witness ==
  /\ last.op = "clear"
  /\ writes = MaxWrites
  /\ \A t \in SchemaTypes : count(store, t) = 0

\* the calls that read
QueryOps == {"get", "fieldEquals", "notInStore", "count", "equals"}

\* C17: store.get, assert.fieldEquals, assert.notInStore, countEntities and
\* assert.equals, called when the flag says clean, leave the store, the flag and the
\* mocked calls as they were.
C17_QueriesChangeNothingWhenClean ==
  [][(last'.op \in QueryOps /\ store_updated)
     => /\ store' = store
        /\ store_updated' = store_updated
        /\ fn_ret_map' = fn_ret_map]_vars

\* a count on a clean store that holds a record, next to a mocked call
C17_Witness ==
  /\ last.op = "count"
  /\ store_updated
  /\ store # EmptyMap
  /\ last.val > 0
  /\ fn_ret_map # EmptyMap

\* the instance is handed the store and the mocks of the parent when a callback starts
CopiedIn ==
  (pc = "loop" /\ pc' = "callback") => (store' = store /\ fn_ret_map' = fn_ret_map)

StoreAndRegistryOps == {"set", "remove", "clear", "register", "call"}

\* the text of twenty zero bytes, the default network, the empty record
DocumentedDefaults ==
  [address |-> "0x0000000000000000000000000000000000000000", network |-> "mainnet",
   context |-> EmptyMap]

\* what the getters are to return: what the last setReturnValues was passed, the
\* defaults when there was none
Expected == IF lastSet.made THEN lastSet ELSE DocumentedDefaults

\* the pairs q are the fields of record rec, each once
FieldsOf(q, rec) ==
  /\ Len(q) = Cardinality(DOMAIN rec)
  /\ Range(q) = {<<k, rec[k]>> : k \in DOMAIN rec}

C22_EagerPull ==
  (last.op = "set" /\ last.ok) =>
    /\ Has(store, last.type, last.id)
    /\ \A d \in Descriptors :
         d[4] = last.type =>
           /\ Range(ListOf(store[last.type][last.id], d[2])) = PointingAt(d[1], d[3], last.id)
           /\ Len(ListOf(store[last.type][last.id], d[2]))
                = Cardinality(PointingAt(d[1], d[3], last.id))

\* the ids a list-valued linking field of record rec names, none when the field is
\* no list
ListedIn(rec, linking) ==
  IF linking \in DOMAIN rec /\ rec[linking].kind = "List" THEN Range(rec[linking].l) ELSE {}

C24_PushAndRescanSameLength ==
  \A d \in Descriptors :
    \A b \in IdsOf(d[4]) :
      Has(store, d[4], b) =>
        /\ Cardinality(Range(ListOf(store[d[4]][b], d[2])))
             = Len(ListOf(store[d[4]][b], d[2]))
        /\ Len(ListOf(store[d[4]][b], d[2]))
             = Len(ListOf(rescan(store, iter, d[4], b), d[2]))

\* C25 as stated: a store.set that went through leaves at its key a record whose
\* fields, the derived fields of the type aside, are the fields it was passed with
\* the values it was passed: no other field, none of the record that was there.
C25_SetReplaces ==
  [][(last'.op = "set" /\ last'.ok) =>
       \A data \in DataFor(last'.type, last'.id) :
         (~missing_required(last'.type, data) /\ mock_store_set(last'.type, last'.id, data))
         => /\ Has(store', last'.type, last'.id)
            /\ NonDerived(last'.type, store'[last'.type][last'.id])
                 = NonDerived(last'.type, data)]_vars

\* C26: a store.set whose entity type the schema does not define ends the process,
\* it does not return an error: nothing runs after it, and it leaves the store, the
\* iteration order and the flag as they were.
C26_UnknownTypeIsFatal ==
  [][/\ (last'.op = "set" /\ last'.type \notin SchemaTypes)
          => /\ aborted'
             /\ last'.val = "critical"
             /\ store' = store
             /\ iter' = iter
             /\ store_updated' = store_updated
     /\ ~aborted]_vars

\* the process ended in a store.set of an unknown type, on a dirty store
C26_Witness ==
  /\ aborted
  /\ last.op = "set"
  /\ last.type = UnknownType
  /\ store # EmptyMap
  /\ ~store_updated

\* C27 as stated: the record a store.set that went through leaves at its key has
\* no derived field of the schema but those declared on the type written.
C27_OnlyOwnDerivedFields ==
  (last.op = "set" /\ last.ok) =>
    \A d \in Descriptors :
      d[2] \in DOMAIN store[last.type][last.id]
      => \E e \in Descriptors : e[4] = last.type /\ e[2] = d[2]

\* each derived list of each entity of store st is the one the full rescan computes
RescanExact(st, it) ==
  \A d \in Descriptors :
    \A b \in IdsOf(d[4]) :
      Has(st, d[4], b) =>
        ListOf(st[d[4]][b], d[2]) = ListOf(rescan(st, it, d[4], b), d[2])

\* C28 as stated: in the context that runs and in the one that waits, parent or
\* instance of ipfs.map, a flag that says clean goes with a store whose derived
\* lists are those of the full rescan.
C28_FlagSoundAcrossHandoff ==
  /\ store_updated => RescanExact(store, iter)
  /\ (other.there /\ other.store_updated) => RescanExact(other.store, other.iter)

\* C29 as stated: with one mockFunction made, an ethereum.call whose address, name,
\* signature or arguments differ from those registered finds no mock: it returns
\* neither the registered values nor the revert signal.
C29_FingerprintInjective ==
  (/\ last.op = "call"
   /\ lastReg.made
   /\ writes = 1
   /\ last.val.params # lastReg.params)
  => last.val.result.kind = "error"

\* C30 as stated: when the only writes of a run are a store.set and the store.remove
\* of the same key, the store after the removal is the empty store the run started
\* with, with no entry for the type.
C30_SetRemoveRestores ==
  (last.op = "remove" /\ last.ok /\ writes = 2) => store = EmptyMap

\* the records of st and su at type t are the same, a derived list that is not there
\* counting as an empty one
SameRecords(st, su, t) ==
  /\ DOMAIN st[t] = DOMAIN su[t]
  /\ \A o \in DOMAIN st[t] :
        /\ NonDerived(t, st[t][o]) = NonDerived(t, su[t][o])
        /\ \A d \in Descriptors :
              d[4] = t => ListOf(st[t][o], d[2]) = ListOf(su[t][o], d[2])

\* the store after store.set of (t, id, data) and store.remove of (t, id) on store st
SetThenRemove(st, t, id, data) == remove_store(set_store(st, iter, t, id, data), t, id)

\* the writes store.set accepts for type t
Accepted(t, id) == {data \in DataFor(t, id) : ~missing_required(t, data)}

\* C30 as amended: from a store with no record of type T, store.set of (T, id) and
\* store.remove of (T, id) leave no record of type T and every other record as it
\* was, a derived list that is not there counting as an empty one, but they leave
\* an entry for T with no record in it; a store.set that comes later and links to
\* an entity of type T leaves the records of every other type as it does on the
\* store in which T was not written.
C30_SetRemoveLeavesEmptyType ==
  /\ (last.op = "remove" /\ last.ok /\ writes = 2)
       => (DOMAIN store = {last.type} /\ DOMAIN store[last.type] = {})
  /\ \A T \in SchemaTypes :
       count(store, T) = 0 =>
         \A id \in IdsOf(T) : \A data \in Accepted(T, id) :
           LET after == SetThenRemove(store, T, id, data)
           IN /\ DOMAIN after = (DOMAIN store) \cup {T}
              /\ DOMAIN after[T] = {}
              /\ \A t \in (DOMAIN store) \ {T} : SameRecords(after, store, t)
              /\ \A d \in Descriptors :
                    d[4] = T =>
                      \A a \in IdsOf(d[1]) : \A linking \in Accepted(d[1], a) :
                        LET later == set_store(after, iter, d[1], a, linking)
                            never == set_store(store, iter, d[1], a, linking)
                        IN \A t \in (DOMAIN never) \ {T} :
                             t \in DOMAIN later /\ later[t] = never[t]

\* a store.set and the store.remove of its key were the two writes of the run
C30_Witness ==
  /\ last.op = "remove"
  /\ last.ok
  /\ writes = 2
  /\ lastWrite.op = "remove"
  /\ last.type \in DOMAIN store
  /\ DOMAIN store[last.type] = {}

\* C31: clearStore leaves the mocked calls, the mocked ipfs files, the mocked data
\* source values and the registered tests exactly as they were, and the run goes
\* on; an ethereum.call made right after it with the parameters of the mockFunction
\* made before it returns the values that mockFunction was given.
C31_ClearLeavesMocks ==
  [][/\ last'.op = "clear"
          => /\ fn_ret_map' = fn_ret_map
             /\ ipfs' = ipfs
             /\ data_source_return_value' = data_source_return_value
             /\ meta_tests' = meta_tests
             /\ aborted' = aborted
     /\ (/\ last.op = "clear"
         /\ last'.op = "call"
         /\ lastReg.made
         /\ last'.val.params = lastReg.params)
          => last'.val.result = [kind |-> "values", values |-> lastReg.ret]]_vars

\* clearStore on a store that held a record, with a mocked call, a mocked ipfs file,
\* mocked data source values and two registered entries
C31_Witness ==
  /\ last.op = "clear"
  /\ writes > 2
  /\ store = EmptyMap
  /\ fn_ret_map # EmptyMap
  /\ ipfs # EmptyMap
  /\ data_source_return_value # <<None, None, None>>
  /\ Len(meta_tests) = 2

====
